---- MODULE Spec2Model ----
(***************************************************************************)
(* Split-Bill platform: the USSD dialogue engine (ussdService.ts), its     *)
(* in-memory session store, and the hand-off into BillService.createBill.  *)
(*                                                                         *)
(* A text is a sequence of one-character strings, so that trim, split,     *)
(* parseFloat and the phone regular expression are computed character by   *)
(* character.  A JavaScript number is a record: NaN, +/-Infinity, or a     *)
(* finite decimal given by its integer digits and its fraction digits.     *)
(***************************************************************************)
EXTENDS Integers, Sequences, FiniteSets, TLC

(***************************************************************************)
(* Bounds of the exploration.                                              *)
(***************************************************************************)
MaxBills == 1   \* bills persisted or being created (createBill in flight)
MaxRun == 9     \* digits after the leading 6/7 of a phone entry: 7..MaxRun

(***************************************************************************)
(* Characters and strings.                                                 *)
(***************************************************************************)
IsDigit(c) == c \in {"0", "1", "2", "3", "4", "5", "6", "7", "8", "9"}

IsSpace(c) == c = " "

DigitVal(c) ==
  CASE c = "0" -> 0 [] c = "1" -> 1 [] c = "2" -> 2 [] c = "3" -> 3
    [] c = "4" -> 4 [] c = "5" -> 5 [] c = "6" -> 6 [] c = "7" -> 7
    [] c = "8" -> 8 [] c = "9" -> 9

RECURSIVE TrimStart(_)
TrimStart(s) ==
  IF s # <<>> /\ IsSpace(Head(s)) THEN TrimStart(Tail(s)) ELSE s

RECURSIVE TrimEnd(_)
TrimEnd(s) ==
  IF s # <<>> /\ IsSpace(s[Len(s)]) THEN TrimEnd(SubSeq(s, 1, Len(s) - 1)) ELSE s

\* String.prototype.trim
Trim(s) == TrimEnd(TrimStart(s))

StartsWith(s, p) == Len(s) >= Len(p) /\ SubSeq(s, 1, Len(p)) = p

\* String.prototype.split with a one-character separator
RECURSIVE Split(_, _)
Split(s, sep) ==
  IF \E i \in 1..Len(s) : s[i] = sep
  THEN LET i == CHOOSE k \in 1..Len(s) :
                  s[k] = sep /\ \A j \in 1..(k - 1) : s[j] # sep
       IN  <<SubSeq(s, 1, i - 1)>> \o Split(SubSeq(s, i + 1, Len(s)), sep)
  ELSE <<s>>

(***************************************************************************)
(* Numbers.                                                                *)
(***************************************************************************)
NaN == [kind |-> "NaN", neg |-> FALSE, int |-> <<>>, frac |-> <<>>]

Undefined == [kind |-> "undefined", neg |-> FALSE, int |-> <<>>, frac |-> <<>>]

Infinite(neg) == [kind |-> "Infinity", neg |-> neg, int |-> <<>>, frac |-> <<>>]

RECURSIVE StripLeadingZeros(_)
StripLeadingZeros(d) ==
  IF d # <<>> /\ Head(d) = "0" THEN StripLeadingZeros(Tail(d)) ELSE d

RECURSIVE StripTrailingZeros(_)
StripTrailingZeros(d) ==
  IF d # <<>> /\ d[Len(d)] = "0"
  THEN StripTrailingZeros(SubSeq(d, 1, Len(d) - 1)) ELSE d

\* the finite number  (-1)^neg * int.frac, in its unique digit form
Finite(neg, int, frac) ==
  [kind |-> "finite", neg |-> neg,
   int |-> StripLeadingZeros(int), frac |-> StripTrailingZeros(frac)]

Zeros(n) == [i \in 1..n |-> "0"]

\* int.frac * 10^exp
Scaled(neg, int, frac, exp) ==
  LET all == int \o frac
      point == Len(int) + exp
  IN  IF point >= Len(all)
      THEN Finite(neg, all \o Zeros(point - Len(all)), <<>>)
      ELSE IF point <= 0
      THEN Finite(neg, <<>>, Zeros(0 - point) \o all)
      ELSE Finite(neg, SubSeq(all, 1, point), SubSeq(all, point + 1, Len(all)))

RECURSIVE CountDigits(_, _)
CountDigits(s, i) ==
  IF i <= Len(s) /\ IsDigit(s[i]) THEN 1 + CountDigits(s, i + 1) ELSE 0

RECURSIVE DigitsValue(_, _, _)
DigitsValue(s, i, n) ==
  IF n = 0 THEN 0 ELSE DigitsValue(s, i, n - 1) * 10 + DigitVal(s[i + n - 1])

\* the global parseFloat: the longest prefix of the text, after leading
\* white space, that is a decimal literal; NaN when there is none
ParseFloat(text) ==
  LET s == TrimStart(text)
      hasSign == s # <<>> /\ Head(s) \in {"+", "-"}
      neg == hasSign /\ Head(s) = "-"
      u == IF hasSign THEN Tail(s) ELSE s
      nInt == CountDigits(u, 1)
      hasDot == Len(u) > nInt /\ u[nInt + 1] = "."
      nFrac == IF hasDot THEN CountDigits(u, nInt + 2) ELSE 0
      e0 == nInt + (IF hasDot THEN 1 + nFrac ELSE 0) + 1
      hasE == Len(u) >= e0 /\ u[e0] \in {"e", "E"}
      hasESign == hasE /\ Len(u) > e0 /\ u[e0 + 1] \in {"+", "-"}
      eAt == e0 + 1 + (IF hasESign THEN 1 ELSE 0)
      nExp == IF hasE THEN CountDigits(u, eAt) ELSE 0
      expAbs == DigitsValue(u, eAt, nExp)
      exp == IF hasESign /\ u[e0 + 1] = "-" THEN 0 - expAbs ELSE expAbs
      int == IF nInt = 0 THEN <<>> ELSE SubSeq(u, 1, nInt)
      frac == IF nFrac = 0 THEN <<>> ELSE SubSeq(u, nInt + 2, nInt + 1 + nFrac)
  IN  IF StartsWith(u, <<"I", "n", "f", "i", "n", "i", "t", "y">>)
      THEN Infinite(neg)
      ELSE IF nInt + nFrac = 0 THEN NaN
      ELSE Scaled(neg, int, frac, exp)

\* the global isNaN
isNaN(n) == n.kind = "NaN"

\* the test is n < 0: zero passes
LtZero(n) ==
  \/ n.kind = "Infinity" /\ n.neg
  \/ n.kind = "finite" /\ n.neg /\ (n.int # <<>> \/ n.frac # <<>>)

\* n <= 0 on numbers (false for NaN)
LeqZero(n) ==
  \/ n.kind = "Infinity" /\ n.neg
  \/ n.kind = "finite" /\ (n.neg \/ (n.int = <<>> /\ n.frac = <<>>))

\* Number.prototype.toString for the numbers of this model
NumberToString(n) ==
  CASE n.kind = "NaN" -> <<"N", "a", "N">>
    [] n.kind = "undefined" ->
         <<"u", "n", "d", "e", "f", "i", "n", "e", "d">>
    [] n.kind = "Infinity" ->
         (IF n.neg THEN <<"-">> ELSE <<>>)
           \o <<"I", "n", "f", "i", "n", "i", "t", "y">>
    [] n.kind = "finite" ->
         (IF n.neg /\ (n.int # <<>> \/ n.frac # <<>>) THEN <<"-">> ELSE <<>>)
           \o (IF n.int = <<>> THEN <<"0">> ELSE n.int)
           \o (IF n.frac = <<>> THEN <<>> ELSE <<".">> \o n.frac)

(***************************************************************************)
(* Phone numbers.                                                          *)
(***************************************************************************)
\* [67]\d{8}
IsSubscriberNumber(s) ==
  /\ Len(s) = 9
  /\ s[1] \in {"6", "7"}
  /\ \A i \in 2..9 : IsDigit(s[i])

\* /^(\+255|0)?[67]\d{8}$/.test(phone)
isValidPhoneNumber(phone) ==
  \/ IsSubscriberNumber(phone)
  \/ Len(phone) = 10 /\ phone[1] = "0"
       /\ IsSubscriberNumber(SubSeq(phone, 2, 10))
  \/ Len(phone) = 13 /\ SubSeq(phone, 1, 4) = <<"+", "2", "5", "5">>
       /\ IsSubscriberNumber(SubSeq(phone, 5, 13))

\* the entries are not trimmed before the test
ParsePhoneNumbersUntrimmed(text) ==
  SelectSeq(Split(text, ","), isValidPhoneNumber)

\* text.split(',').map(phone => phone.trim()).filter(isValidPhoneNumber)
ParsePhoneNumbers(text) ==
  LET parts == Split(text, ",")
      trimmed == [i \in 1..Len(parts) |-> Trim(parts[i])]
  IN  SelectSeq(trimmed, isValidPhoneNumber)

(***************************************************************************)
(* Arithmetic of JavaScript numbers.  A number is an IEEE 754 double: the  *)
(* value m * 2^e with m below 2^53.  m does not fit a machine integer of   *)
(* the checker, so a natural number is the sequence of its decimal digits, *)
(* most significant first, the empty sequence for 0.                       *)
(***************************************************************************)
NatOfDigits(chars) ==
  LET stripped == StripLeadingZeros(chars)
  IN  [i \in 1..Len(stripped) |-> DigitVal(stripped[i])]

RECURSIVE NatOfInt(_)
NatOfInt(v) == IF v = 0 THEN <<>> ELSE Append(NatOfInt(v \div 10), v % 10)

RECURSIVE IntOfNat(_)
IntOfNat(a) ==
  IF a = <<>> THEN 0
  ELSE IntOfNat(SubSeq(a, 1, Len(a) - 1)) * 10 + a[Len(a)]

\* a * k + carry, for small k and carry
RECURSIVE NatTimesPlus(_, _, _)
NatTimesPlus(a, k, carry) ==
  IF a = <<>> THEN NatOfInt(carry)
  ELSE LET v == a[Len(a)] * k + carry
       IN  Append(NatTimesPlus(SubSeq(a, 1, Len(a) - 1), k, v \div 10), v % 10)

\* long division of a by a small k, from digit i on, with rem carried in
RECURSIVE NatDivFrom(_, _, _, _)
NatDivFrom(a, k, i, rem) ==
  IF i > Len(a) THEN [quot |-> <<>>, rem |-> rem]
  ELSE LET v == rem * 10 + a[i]
           rest == NatDivFrom(a, k, i + 1, v % k)
           digit == v \div k
       IN  [quot |-> <<digit>> \o rest.quot, rem |-> rest.rem]

RECURSIVE NatStrip(_)
NatStrip(a) == IF a # <<>> /\ Head(a) = 0 THEN NatStrip(Tail(a)) ELSE a

NatDiv(a, k) ==
  LET r == NatDivFrom(a, k, 1, 0) IN [quot |-> NatStrip(r.quot), rem |-> r.rem]

RECURSIVE NatLessFrom(_, _, _)
NatLessFrom(a, b, i) ==
  IF i > Len(a) THEN FALSE
  ELSE IF a[i] # b[i] THEN a[i] < b[i]
  ELSE NatLessFrom(a, b, i + 1)

NatLess(a, b) ==
  IF Len(a) # Len(b) THEN Len(a) < Len(b) ELSE NatLessFrom(a, b, 1)

NatIsOdd(a) == a # <<>> /\ a[Len(a)] % 2 = 1

\* a * 10^k
NatShift10(a, k) == IF a = <<>> THEN <<>> ELSE a \o [i \in 1..k |-> 0]

\* floor(a / 2^s)
RECURSIVE NatHalveTimes(_, _)
NatHalveTimes(a, s) ==
  IF s = 0 THEN a
  ELSE LET step == IF s > 20 THEN 20 ELSE s
       IN  NatHalveTimes(NatDiv(a, 2^step).quot, s - step)

Pow2_52 == <<4, 5, 0, 3, 5, 9, 9, 6, 2, 7, 3, 7, 0, 4, 9, 6>>
Pow2_53 == <<9, 0, 0, 7, 1, 9, 9, 2, 5, 4, 7, 4, 0, 9, 9, 2>>

\* double a until it is at least bound, counting the doublings; c doublings
\* are taken in one step while that stays below bound
RECURSIVE ScaleUpBy(_, _, _, _)
ScaleUpBy(a, bound, s, c) ==
  IF NatLess(NatTimesPlus(a, 2^c, 0), bound)
  THEN ScaleUpBy(NatTimesPlus(a, 2^c, 0), bound, s + c, c)
  ELSE IF c > 1 THEN ScaleUpBy(a, bound, s, c \div 4)
  ELSE IF NatLess(a, bound) THEN ScaleUpBy(NatTimesPlus(a, 2, 0), bound, s + 1, c)
  ELSE [nat |-> a, shift |-> s]

ScaleUp(a, bound, s) == ScaleUpBy(a, bound, s, 16)

\* the double with mantissa quot (+ 1 when roundUp) and exponent e
Rounded(quot, roundUp, e) ==
  LET m == IF roundUp THEN NatTimesPlus(quot, 1, 1) ELSE quot
  IN  IF m = Pow2_53 THEN [m |-> Pow2_52, e |-> e + 1] ELSE [m |-> m, e |-> e]

\* the double nearest to nat / 10^k (ties to even), for 0 < nat / 10^k < 2^52:
\* what reading the decimal literal gives
ToDouble(nat, k) ==
  LET scaled == ScaleUp(nat, NatShift10(Pow2_52, k), 0)
      quot == SubSeq(scaled.nat, 1, Len(scaled.nat) - k)
      rem == NatStrip(SubSeq(scaled.nat, Len(scaled.nat) - k + 1,
                             Len(scaled.nat)))
      twice == NatTimesPlus(rem, 2, 0)
      unit == NatShift10(<<1>>, k)
      roundUp == NatLess(unit, twice) \/ (twice = unit /\ NatIsOdd(quot))
  IN  Rounded(quot, roundUp, 0 - scaled.shift)

\* x / n for a double x > 0 and an integer n in 1..9 (ties to even)
DoubleDiv(x, n) ==
  LET scaled == ScaleUp(x.m, NatTimesPlus(Pow2_52, n, 0), 0)
      d == NatDiv(scaled.nat, n)
      roundUp == 2 * d.rem > n \/ (2 * d.rem = n /\ NatIsOdd(d.quot))
  IN  Rounded(d.quot, roundUp, x.e - scaled.shift)

\* floor(x * k) for a double x = m * 2^e with e <= 0 and a small k
DoubleFloorTimes(x, k) == NatHalveTimes(NatTimesPlus(x.m, k, 0), 0 - x.e)

\* Number.prototype.toFixed(2), as the number of hundredths it prints: the
\* integer n with n / 100 nearest to the exact value of x, the larger n of
\* two
ToFixed2(x) ==
  IntOfNat(NatDiv(NatTimesPlus(DoubleFloorTimes(x, 200), 1, 1), 2).quot)

\* x.toString() written to a decimal(10, 2) column, as the number of
\* hundredths stored.  toString gives the shortest decimal that reads back
\* as x; the column rounds that decimal half away from zero.  The decimal
\* is a tie exactly when the tie above floor(100 x) / 100 reads back as x;
\* otherwise it rounds as x itself does.
StoredHundredthsTruncated(x) == IntOfNat(DoubleFloorTimes(x, 100))

\* the rounding of the column, as described above
StoredHundredths(x) ==
  LET below == DoubleFloorTimes(x, 100)
      tie == NatTimesPlus(below, 10, 5)
  IN  IF ToDouble(tie, 3) = x THEN IntOfNat(below) + 1 ELSE ToFixed2(x)

\* the double of a positive finite number of this model
DoubleOf(n) == ToDouble(NatOfDigits(n.int \o n.frac), Len(n.frac))

(***************************************************************************)
(* The phone helpers of the validation utilities.                          *)
(***************************************************************************)
\* phone.replace(/[\s\-\(\)]/g, '')
CleanPhone(phone) ==
  SelectSeq(phone, LAMBDA c : ~(IsSpace(c) \/ c \in {"-", "(", ")"}))

\* /^(\+255|0)?[67]\d{8}$/.test(cleanPhone)
validatePhoneNumber(phone) ==
  LET cleanPhone == CleanPhone(phone)
  IN  \/ IsSubscriberNumber(cleanPhone)
      \/ Len(cleanPhone) = 10 /\ cleanPhone[1] = "0"
           /\ IsSubscriberNumber(SubSeq(cleanPhone, 2, 10))
      \/ Len(cleanPhone) = 13
           /\ SubSeq(cleanPhone, 1, 4) = <<"+", "2", "5", "5">>
           /\ IsSubscriberNumber(SubSeq(cleanPhone, 5, 13))

\* the trunk 0 is kept behind the country code
formatPhoneNumberKeepsTrunkZero(phone) ==
  LET cleanPhone == CleanPhone(phone)
  IN  IF StartsWith(cleanPhone, <<"0">>)
        THEN <<"+", "2", "5", "5">> \o cleanPhone
      ELSE IF StartsWith(cleanPhone, <<"+", "2", "5", "5">>) THEN cleanPhone
      ELSE IF StartsWith(cleanPhone, <<"2", "5", "5">>)
        THEN <<"+">> \o cleanPhone
      ELSE IF IsSubscriberNumber(cleanPhone)
        THEN <<"+", "2", "5", "5">> \o cleanPhone
      ELSE cleanPhone

formatPhoneNumber(phone) ==
  LET cleanPhone == CleanPhone(phone)
  IN  IF StartsWith(cleanPhone, <<"0">>)
        THEN <<"+", "2", "5", "5">> \o SubSeq(cleanPhone, 2, Len(cleanPhone))
      ELSE IF StartsWith(cleanPhone, <<"+", "2", "5", "5">>) THEN cleanPhone
      ELSE IF StartsWith(cleanPhone, <<"2", "5", "5">>)
        THEN <<"+">> \o cleanPhone
      ELSE IF IsSubscriberNumber(cleanPhone)
        THEN <<"+", "2", "5", "5">> \o cleanPhone
      ELSE cleanPhone

(***************************************************************************)
(* Phone entries: a prefix, a leading digit, and a run of digits written   *)
(* in three groups with a separator between the groups.                    *)
(***************************************************************************)
PhonePrefixes ==
  {<<>>, <<"0">>, <<"+", "2", "5", "5">>, <<"2", "5", "5">>,
   <<"+", "2", "5", "4">>}

PhoneLeading == {"5", "6", "7"}

PhoneSeparators == {<<>>, <<"-">>, <<" ">>, <<"(">>, <<")">>, <<"x">>}

DigitChar(d) ==
  CASE d = 0 -> "0" [] d = 1 -> "1" [] d = 2 -> "2" [] d = 3 -> "3"
    [] d = 4 -> "4" [] d = 5 -> "5" [] d = 6 -> "6" [] d = 7 -> "7"
    [] d = 8 -> "8" [] d = 9 -> "9"

\* "12345678" for n = 8
DigitRun(n) == [i \in 1..n |-> DigitChar(i % 10)]

PhoneEntries ==
  {prefix \o <<leading>> \o SubSeq(DigitRun(n), 1, 2) \o separator
      \o SubSeq(DigitRun(n), 3, 5) \o separator \o SubSeq(DigitRun(n), 6, n) :
     prefix \in PhonePrefixes, leading \in PhoneLeading,
     separator \in PhoneSeparators, n \in 7..MaxRun}

(***************************************************************************)
(* Inputs of a USSD turn (routes/ussd.ts hands the validated body to the   *)
(* engine; a missing text defaults to the empty string).                   *)
(***************************************************************************)
SessionIds == {"s1", "s2"}

T_blank == <<>>
T_2_5 == <<" ", "2", ".", "5">>
T_zero == <<"0">>
T_abc == <<"a", "b", "c">>
T_inf == <<"I", "n", "f", "i", "n", "i", "t", "y">>
T_one == <<"1">>
T_two == <<"2">>
T_mixed == <<"0", "7", "1", "2", "3", "4", "5", "6", "7", "8", ",", " ", "n", "o", "t", "a", "n", "u", "m", "b", "e", "r", ",", " ", "0", "6", "9", "8", "7", "6", "5", "4", "3", "2">>

Texts == {T_blank, T_2_5, T_zero, T_abc, T_inf, T_one, T_two, T_mixed}

\* the turns explored: every text for dialogue s1, a blank turn for s1 from
\* a second phone, and the opening turn of a second dialogue s2
Requests ==
  [sessionId : {"s1"}, serviceCode : {"*123#"},
   phoneNumber : {"+255700000000"}, text : Texts]
  \cup [sessionId : {"s1"}, serviceCode : {"*150#"},
        phoneNumber : {"+255711111111"}, text : {T_blank}]
  \cup [sessionId : {"s2"}, serviceCode : {"*150#"},
        phoneNumber : {"+255711111111"},
        text : {T_blank}]

(***************************************************************************)
(* State.                                                                  *)
(***************************************************************************)
VARIABLES
  sessionStore,   \* the Map sessionId -> USSDState
  pending,        \* '1' turns waiting at "await billService.createBill"
  users,          \* table users: phone -> name
  bills,          \* table bills with their bill_members rows, in id order
  answered,       \* per sessionId, how its latest response left the dialogue
  last,           \* the step taken last: the request and what was returned
  normalized,     \* a phone entry and what the phone helpers made of it
  tx,             \* the database transaction of a createBill call, step by step
  outbox,         \* the SMS send attempts made so far, in order
  share,          \* an amount, a member count and the per-member share of it
  nodeEnv,        \* process.env.NODE_ENV when the routes were registered
  payment,        \* the latest POST /payment/mock and what it answered
  admin           \* the debug request this step answered, if it was one

vars == <<sessionStore, pending, users, bills, answered, last, normalized, tx,
          outbox, share, nodeEnv, payment, admin>>

NoEntry == [raw |-> <<>>, stage |-> "none", engine |-> FALSE, valid |-> FALSE,
            formatted |-> <<>>, validAgain |-> FALSE, again |-> <<>>]

NoBillRequest == [creatorPhone |-> "", creatorName |-> "", amount |-> Undefined,
                  memberPhones |-> <<>>]

NoTransaction == [phase |-> "idle", billRequest |-> NoBillRequest,
                  users |-> <<>>, bills |-> <<>>]

NoPayment == [billId |-> 0, memberPhone |-> "", matched |-> 0,
              returned |-> FALSE, http |-> 0]

NoAdmin == [op |-> "none", sessionId |-> "", http |-> 0, found |-> FALSE,
            sessionInfo |-> [step |-> "none"]]

NoShare == [stage |-> "none", text |-> <<>>, count |-> 0,
            amountPerMember |-> [m |-> <<>>, e |-> 0], shown |-> -1,
            stored |-> <<>>]

NoMessage == [kind |-> "none", billId |-> 0, amount |-> <<>>, count |-> 0,
              phones |-> <<>>]

NoRequest == [sessionId |-> "", serviceCode |-> "", phoneNumber |-> "",
              text |-> <<>>]

NoResponse == [sessionId |-> "", serviceCode |-> "", message |-> NoMessage,
               status |-> "NONE"]

\* the message of a response: which template, and the values put into it
\* (amounts printed with toFixed are not carried)
Message(kind) == [NoMessage EXCEPT !.kind = kind]

\* the state a turn starts from when the store has no entry
InitialState(phoneNumber) ==
  [step |-> "amount", amount |-> Undefined, memberPhones |-> <<>>,
   creatorName |-> "undefined", phoneNumber |-> phoneNumber]

\* sessionStore.get(sessionId) || { step: 'amount', ... }
StateOf(request) ==
  IF request.sessionId \in DOMAIN sessionStore
  THEN sessionStore[request.sessionId]
  ELSE InitialState(request.phoneNumber)

\* Map.prototype.set
MapSet(map, key, value) ==
  [k \in DOMAIN map \cup {key} |-> IF k = key THEN value ELSE map[k]]

\* Map.prototype.delete
MapDelete(map, key) == [k \in DOMAIN map \ {key} |-> map[k]]

createResponse(sessionId, message, status) ==
  [sessionId |-> sessionId, serviceCode |-> "*123#", message |-> message,
   status |-> status]

extractNameFromPhone(phone) == "User"

\* !text || text.trim() === ''
IsBlank(text) == text = <<>> \/ Trim(text) = <<>>

\* what a response tells the gateway: continue, or ended and why
Outcome(response) ==
  IF response.status = "CON" THEN "CON" ELSE response.message.kind

\* the handler returns response to the gateway
Return(op, request, step, response) ==
  /\ last' = [op |-> op, req |-> request, step |-> step, resp |-> response,
              after |-> answered[request.sessionId]]
  /\ answered' = [answered EXCEPT ![request.sessionId] = Outcome(response)]

Init ==
  /\ sessionStore = <<>>
  /\ pending = <<>>
  /\ users = <<>>
  /\ bills = <<>>
  /\ answered = [sessionId \in SessionIds |-> "none"]
  /\ last = [op |-> "none", req |-> NoRequest, step |-> "", resp |-> NoResponse,
             after |-> "none"]
  /\ normalized = NoEntry
  /\ tx = NoTransaction
  /\ outbox = <<>>
  /\ share = NoShare
  /\ nodeEnv = "production"
  /\ payment = NoPayment
  /\ admin = NoAdmin

(***************************************************************************)
(* handleAmountStep                                                        *)
(***************************************************************************)
\* first time: ask for the amount
amountWelcome(request, state) ==
  LET welcomed == [state EXCEPT
                     !.creatorName = extractNameFromPhone(request.phoneNumber),
                     !.phoneNumber = request.phoneNumber]
  IN  /\ sessionStore' = MapSet(sessionStore, request.sessionId, welcomed)
      /\ Return("turn", request, "amount",
                createResponse(request.sessionId, Message("welcome"), "CON"))

\* the rejected turn writes the state it read back to the store
amountInvalidStored(request, state) ==
  /\ sessionStore' = MapSet(sessionStore, request.sessionId, state)
  /\ Return("turn", request, "amount",
            createResponse(request.sessionId, Message("invalidAmount"), "CON"))

\* isNaN(amount) || amount <= 0
amountInvalid(request, state) ==
  /\ sessionStore' = sessionStore
  /\ Return("turn", request, "amount",
            createResponse(request.sessionId, Message("invalidAmount"), "CON"))

\* the amount is stored as a whole number
amountAcceptedTruncated(request, state, amount) ==
  LET advanced == [state EXCEPT !.amount = [amount EXCEPT !.frac = <<>>],
                                !.step = "members"]
  IN  /\ sessionStore' = MapSet(sessionStore, request.sessionId, advanced)
      /\ Return("turn", request, "amount",
                createResponse(request.sessionId, Message("enterMembers"), "CON"))

\* store amount and move to next step
amountAccepted(request, state, amount) ==
  LET advanced == [state EXCEPT !.amount = amount, !.step = "members"]
  IN  /\ sessionStore' = MapSet(sessionStore, request.sessionId, advanced)
      /\ Return("turn", request, "amount",
                createResponse(request.sessionId, Message("enterMembers"), "CON"))

handleAmountStep(request, state) ==
  LET amount == ParseFloat(Trim(request.text))
  IN  /\ IF IsBlank(request.text)
         THEN amountWelcome(request, state)
         ELSE IF isNaN(amount) \/ LeqZero(amount)
         THEN amountInvalid(request, state)
         ELSE amountAccepted(request, state, amount)
      /\ UNCHANGED <<pending, users, bills>>

(***************************************************************************)
(* handleMembersStep                                                       *)
(***************************************************************************)
membersRejected(request, kind) ==
  /\ sessionStore' = sessionStore
  /\ Return("turn", request, "members",
            createResponse(request.sessionId, Message(kind), "CON"))

\* the accepted list sends the dialogue back to the amount step
membersAcceptedStepBack(request, state, phoneNumbers) ==
  LET advanced == [state EXCEPT !.memberPhones = phoneNumbers,
                                !.step = "amount"]
      summary == [Message("summary") EXCEPT !.count = Len(phoneNumbers),
                                            !.phones = phoneNumbers]
  IN  /\ sessionStore' = MapSet(sessionStore, request.sessionId, advanced)
      /\ Return("turn", request, "members",
                createResponse(request.sessionId, summary, "CON"))

\* the accepted list is stored and the members step asks again
membersAcceptedAsksAgain(request, state, phoneNumbers) ==
  LET kept == [state EXCEPT !.memberPhones = phoneNumbers]
  IN  /\ sessionStore' = MapSet(sessionStore, request.sessionId, kept)
      /\ Return("turn", request, "members",
                createResponse(request.sessionId,
                               Message("enterMembersAgain"), "CON"))

\* store member phones and move to confirmation
membersAccepted(request, state, phoneNumbers) ==
  LET advanced == [state EXCEPT !.memberPhones = phoneNumbers,
                                !.step = "confirm"]
      summary == [Message("summary") EXCEPT !.count = Len(phoneNumbers),
                                            !.phones = phoneNumbers]
  IN  /\ sessionStore' = MapSet(sessionStore, request.sessionId, advanced)
      /\ Return("turn", request, "members",
                createResponse(request.sessionId, summary, "CON"))

\* the members turn waits for a call before it writes the session
handleMembersStepWaits(request, state) ==
  /\ pending' = Append(pending, [request |-> request,
                                 billRequest |-> NoBillRequest])
  /\ last' = [op |-> "await", req |-> request, step |-> "members",
              resp |-> NoResponse, after |-> answered[request.sessionId]]
  /\ UNCHANGED <<sessionStore, users, bills, answered>>

handleMembersStep(request, state) ==
  LET phoneNumbers == ParsePhoneNumbers(request.text)
  IN  /\ IF IsBlank(request.text)
         THEN membersRejected(request, "enterMembersAgain")
         ELSE IF Len(phoneNumbers) = 0
         THEN membersRejected(request, "noValidNumbers")
         ELSE membersAccepted(request, state, phoneNumbers)
      /\ UNCHANGED <<pending, users, bills>>

(***************************************************************************)
(* handleConfirmStep                                                       *)
(***************************************************************************)
\* the bill request is built without the stored member list
CreateBillRequestNoMembers(state) ==
  [creatorPhone |-> state.phoneNumber,
   creatorName |-> IF state.creatorName = "undefined" THEN "User"
                   ELSE state.creatorName,
   amount |-> state.amount,
   memberPhones |-> <<>>]

\* the bill request of handleConfirmStep
CreateBillRequest(state) ==
  [creatorPhone |-> state.phoneNumber,
   creatorName |-> IF state.creatorName = "undefined" THEN "User"
                   ELSE state.creatorName,
   amount |-> state.amount,
   memberPhones |-> state.memberPhones]

\* a '1' turn waits for the call of the same dialogue that is in flight
confirmCreateOneAtATime(request, state) ==
  /\ \A i \in 1..Len(pending) :
       pending[i].request.sessionId # request.sessionId
  /\ pending' = Append(pending, [request |-> request,
                                 billRequest |-> CreateBillRequest(state)])
  /\ last' = [op |-> "await", req |-> request, step |-> "confirm",
              resp |-> NoResponse, after |-> answered[request.sessionId]]
  /\ UNCHANGED <<sessionStore, users, bills, answered>>

\* text === '1': build the request and wait for billService.createBill
confirmCreate(request, state) ==
  /\ pending' = Append(pending, [request |-> request,
                                 billRequest |-> CreateBillRequest(state)])
  /\ last' = [op |-> "await", req |-> request, step |-> "confirm",
              resp |-> NoResponse, after |-> answered[request.sessionId]]
  /\ UNCHANGED <<sessionStore, users, bills, answered>>

\* cancellation answers END and keeps the session
confirmCancelKeepsSession(request) ==
  /\ Return("turn", request, "confirm",
            createResponse(request.sessionId, Message("cancelled"), "END"))
  /\ UNCHANGED <<sessionStore, pending, users, bills>>

\* the cancellation empties the store
confirmCancelClearsStore(request) ==
  /\ sessionStore' = <<>>
  /\ Return("turn", request, "confirm",
            createResponse(request.sessionId, Message("cancelled"), "END"))
  /\ UNCHANGED <<pending, users, bills>>

\* text === '2': cancel operation
confirmCancel(request) ==
  /\ sessionStore' = MapDelete(sessionStore, request.sessionId)
  /\ Return("turn", request, "confirm",
            createResponse(request.sessionId, Message("cancelled"), "END"))
  /\ UNCHANGED <<pending, users, bills>>

\* an unknown option answers CON and drops the session
confirmInvalidDeletes(request) ==
  /\ sessionStore' = MapDelete(sessionStore, request.sessionId)
  /\ Return("turn", request, "confirm",
            createResponse(request.sessionId, Message("invalidOption"), "CON"))
  /\ UNCHANGED <<pending, users, bills>>

\* any other text: ask again
confirmInvalid(request) ==
  /\ Return("turn", request, "confirm",
            createResponse(request.sessionId, Message("invalidOption"), "CON"))
  /\ UNCHANGED <<sessionStore, pending, users, bills>>

\* every text but '2' confirms
handleConfirmStepCreatesByDefault(request, state) ==
  IF request.text = <<"2">> THEN confirmCancel(request)
  ELSE confirmCreate(request, state)

handleConfirmStep(request, state) ==
  IF request.text = <<"1">> THEN confirmCreate(request, state)
  ELSE IF request.text = <<"2">> THEN confirmCancel(request)
  ELSE confirmInvalid(request)

\* BillService.createBill: the bill its transaction commits
createBill(billRequest) ==
  LET creatorName == IF billRequest.creatorPhone \in DOMAIN users
                     THEN users[billRequest.creatorPhone]
                     ELSE billRequest.creatorName
      amountPerMember == [dividend |-> billRequest.amount,
                          divisor |-> Len(billRequest.memberPhones)]
  IN  [id |-> Len(bills) + 1,
       amount |-> NumberToString(billRequest.amount),
       creator |-> [name |-> creatorName, phone |-> billRequest.creatorPhone],
       members |-> [i \in 1..Len(billRequest.memberPhones) |->
                      [member_phone |-> billRequest.memberPhones[i],
                       amount |-> amountPerMember,
                       status |-> "pending"]]]

RemoveAt(seq, i) == SubSeq(seq, 1, i - 1) \o SubSeq(seq, i + 1, Len(seq))

\* the bill is reported and the session is kept
confirmResolvedKeepsSession(i) ==
  LET call == pending[i]
      sessionId == call.request.sessionId
      bill == createBill(call.billRequest)
      created == [Message("created") EXCEPT !.billId = bill.id,
                                            !.amount = bill.amount,
                                            !.count = Len(bill.members)]
  IN  /\ users' = IF bill.creator.phone \in DOMAIN users THEN users
                  ELSE MapSet(users, bill.creator.phone, bill.creator.name)
      /\ bills' = Append(bills, bill)
      /\ sessionStore' = sessionStore
      /\ pending' = RemoveAt(pending, i)
      /\ Return("resolved", call.request, "confirm",
                createResponse(sessionId, created, "END"))

\* createBill returned a bill: clear the session and report the bill
confirmResolved(i) ==
  LET call == pending[i]
      sessionId == call.request.sessionId
      bill == createBill(call.billRequest)
      created == [Message("created") EXCEPT !.billId = bill.id,
                                            !.amount = bill.amount,
                                            !.count = Len(bill.members)]
  IN  /\ users' = IF bill.creator.phone \in DOMAIN users THEN users
                  ELSE MapSet(users, bill.creator.phone, bill.creator.name)
      /\ bills' = Append(bills, bill)
      /\ sessionStore' = MapDelete(sessionStore, sessionId)
      /\ pending' = RemoveAt(pending, i)
      /\ Return("resolved", call.request, "confirm",
                createResponse(sessionId, created, "END"))

\* createBill threw and its transaction rolled back: the catch branch
confirmRejected(i) ==
  LET call == pending[i]
  IN  /\ pending' = RemoveAt(pending, i)
      /\ Return("rejected", call.request, "confirm",
                createResponse(call.request.sessionId, Message("failed"), "END"))
      /\ UNCHANGED <<sessionStore, users, bills>>

(***************************************************************************)
(* processUSSDRequest                                                      *)
(***************************************************************************)
processUSSDRequest(request) ==
  LET state == StateOf(request)
  IN  \/ state.step = "amount" /\ handleAmountStep(request, state)
      \/ state.step = "members" /\ handleMembersStep(request, state)
      \/ state.step = "confirm" /\ handleConfirmStep(request, state)

Turn ==
  /\ \E request \in Requests :
       /\ processUSSDRequest(request)
       /\ Len(bills') + Len(pending') <= MaxBills
  /\ admin' = NoAdmin
  /\ UNCHANGED <<normalized, tx, outbox, share, nodeEnv, payment>>

Resolve ==
  /\ \E i \in 1..Len(pending) : confirmResolved(i)
  /\ admin' = NoAdmin
  /\ UNCHANGED <<normalized, tx, outbox, share, nodeEnv, payment>>

Reject ==
  /\ \E i \in 1..Len(pending) : confirmRejected(i)
  /\ admin' = NoAdmin
  /\ UNCHANGED <<normalized, tx, outbox, share, nodeEnv, payment>>

Next == Turn \/ Resolve \/ Reject

Spec == Init /\ [][Next]_vars

(***************************************************************************)
(* The phone helpers applied to one entry: the engine's test and the       *)
(* normalizer's test, then formatPhoneNumber, then both once more on the   *)
(* formatted number.                                                       *)
(***************************************************************************)
PhoneInit ==
  /\ sessionStore = <<>>
  /\ pending = <<>>
  /\ users = <<>>
  /\ bills = <<>>
  /\ answered = [sessionId \in SessionIds |-> "none"]
  /\ last = [op |-> "none", req |-> NoRequest, step |-> "", resp |-> NoResponse,
             after |-> "none"]
  /\ normalized \in {[NoEntry EXCEPT !.raw = entry, !.stage = "raw"] :
                        entry \in PhoneEntries}
  /\ tx = NoTransaction
  /\ outbox = <<>>
  /\ share = NoShare
  /\ nodeEnv = "production"
  /\ payment = NoPayment
  /\ admin = NoAdmin

checkEntry ==
  /\ normalized.stage = "raw"
  /\ normalized' = [normalized EXCEPT
                      !.stage = "checked",
                      !.engine = isValidPhoneNumber(normalized.raw),
                      !.valid = validatePhoneNumber(normalized.raw)]
  /\ UNCHANGED <<sessionStore, pending, users, bills, answered, last, tx,
               outbox, share, nodeEnv, payment, admin>>

normalizeEntry ==
  /\ normalized.stage = "checked"
  /\ normalized' = [normalized EXCEPT
                      !.stage = "formatted",
                      !.formatted = formatPhoneNumber(normalized.raw)]
  /\ UNCHANGED <<sessionStore, pending, users, bills, answered, last, tx,
               outbox, share, nodeEnv, payment, admin>>

normalizeAgain ==
  /\ normalized.stage = "formatted"
  /\ normalized' = [normalized EXCEPT
                      !.stage = "again",
                      !.validAgain = validatePhoneNumber(normalized.formatted),
                      !.again = formatPhoneNumber(normalized.formatted)]
  /\ UNCHANGED <<sessionStore, pending, users, bills, answered, last, tx,
               outbox, share, nodeEnv, payment, admin>>

PhoneNext == checkEntry \/ normalizeEntry \/ normalizeAgain

SpecPhone == PhoneInit /\ [][PhoneNext]_vars

(***************************************************************************)
(* BillService.createBill statement by statement, called by POST /bills.   *)
(* tx.users and tx.bills are the tables as the open transaction sees them: *)
(* the committed rows and the rows it has inserted.  Commit publishes      *)
(* them, a throw inside the callback rolls the transaction back.           *)
(***************************************************************************)
BillRequests ==
  [creatorPhone : {"+255700000000", "+255711111111"},
   creatorName : {"User"},
   amount : {ParseFloat(T_2_5)},
   memberPhones : {<<"0712345678">>, <<"0712345678", "0698765432">>,
                   <<"0712345678", "0712345678">>}]

\* what becomes of the POST to the SMS provider
SmsOutcomes == {"delivered", "refused", "networkError", "unknownError"}

\* a network error is thrown on to the caller
sendSMSThrows(outcome) ==
  [threw |-> outcome = "networkError", success |-> outcome = "delivered"]

\* SMSService.sendSMS: success only when the provider says so; a refusal, an
\* axios error and any other error all come back as {success: false}
sendSMS(outcome) == [threw |-> FALSE, success |-> outcome = "delivered"]

\* one entry of the outbox
Attempt(to, kind, outcome) == [to |-> to, kind |-> kind, outcome |-> outcome]

\* the bill row goes to the table itself, outside the transaction
dbInsertBill ==
  /\ tx.phase = "user"
  /\ LET request == tx.billRequest
         bill == [id |-> Len(tx.bills) + 1,
                  amount |-> NumberToString(request.amount),
                  creator |-> [name |-> tx.users[request.creatorPhone],
                               phone |-> request.creatorPhone],
                  members |-> <<>>]
     IN  /\ tx' = [tx EXCEPT !.phase = "bill", !.bills = Append(@, bill)]
         /\ bills' = Append(bills, bill)
  /\ UNCHANGED <<sessionStore, pending, users, answered, last, normalized,
               outbox, share, nodeEnv, payment, admin>>

\* POST /bills: the body passed the schema, createBill opens a transaction
postBills(body) ==
  /\ tx.phase \in {"idle", "committed", "rolledBack"}
  /\ Len(bills) < MaxBills
  /\ tx' = [phase |-> "begun", billRequest |-> body, users |-> users,
            bills |-> bills]
  /\ outbox' = <<>>
  /\ UNCHANGED <<sessionStore, pending, users, bills, answered, last,
               normalized, share, nodeEnv, payment, admin>>

\* select the creator by phone, insert the user if there is none
txGetOrCreateUser ==
  /\ tx.phase = "begun"
  /\ LET request == tx.billRequest
     IN  tx' = [tx EXCEPT
                 !.phase = "user",
                 !.users = IF request.creatorPhone \in DOMAIN tx.users THEN @
                           ELSE MapSet(@, request.creatorPhone,
                                       request.creatorName)]
  /\ UNCHANGED <<sessionStore, pending, users, bills, answered, last,
               normalized, outbox, share, nodeEnv, payment, admin>>

\* tx.insert(bills)
txInsertBill ==
  /\ tx.phase = "user"
  /\ LET request == tx.billRequest
         bill == [id |-> Len(tx.bills) + 1,
                  amount |-> NumberToString(request.amount),
                  creator |-> [name |-> tx.users[request.creatorPhone],
                               phone |-> request.creatorPhone],
                  members |-> <<>>]
     IN  tx' = [tx EXCEPT !.phase = "bill", !.bills = Append(@, bill)]
  /\ UNCHANGED <<sessionStore, pending, users, bills, answered, last,
               normalized, outbox, share, nodeEnv, payment, admin>>

\* the notification goes to the creator of the bill
txInsertMemberNotifiesCreator(outcome) ==
  /\ tx.phase = "bill"
  /\ LET request == tx.billRequest
         id == Len(tx.bills)
         i == Len(tx.bills[id].members) + 1
         amountPerMember == [dividend |-> request.amount,
                             divisor |-> Len(request.memberPhones)]
         response == sendSMS(outcome)
     IN  /\ i <= Len(request.memberPhones)
         /\ tx' = [tx EXCEPT
                     !.phase = IF response.threw THEN "rolledBack" ELSE @,
                     !.bills[id].members =
                        Append(@, [member_phone |-> request.memberPhones[i],
                                   amount |-> amountPerMember,
                                   status |-> "pending"])]
         /\ outbox' = Append(outbox, Attempt(request.creatorPhone,
                                             "billSplitRequest", outcome))
  /\ UNCHANGED <<sessionStore, pending, users, bills, answered, last,
               normalized, share, nodeEnv, payment, admin>>

\* the callback of the next member phone: tx.insert(billMembers), then
\* smsService.sendBillSplitRequest to that phone; a throw ends the
\* transaction
txInsertMember(outcome) ==
  /\ tx.phase = "bill"
  /\ LET request == tx.billRequest
         id == Len(tx.bills)
         i == Len(tx.bills[id].members) + 1
         amountPerMember == [dividend |-> request.amount,
                             divisor |-> Len(request.memberPhones)]
         response == sendSMS(outcome)
     IN  /\ i <= Len(request.memberPhones)
         /\ tx' = [tx EXCEPT
                     !.phase = IF response.threw THEN "rolledBack" ELSE @,
                     !.bills[id].members =
                        Append(@, [member_phone |-> request.memberPhones[i],
                                   amount |-> amountPerMember,
                                   status |-> "pending"])]
         /\ outbox' = Append(outbox, Attempt(request.memberPhones[i],
                                             "billSplitRequest", outcome))
  /\ UNCHANGED <<sessionStore, pending, users, bills, answered, last,
               normalized, share, nodeEnv, payment, admin>>

\* every insert is done, the callback returns: the transaction commits
txCommit ==
  /\ tx.phase = "bill"
  /\ Len(tx.bills[Len(tx.bills)].members) = Len(tx.billRequest.memberPhones)
  /\ users' = tx.users
  /\ bills' = tx.bills
  /\ tx' = [tx EXCEPT !.phase = "committed"]
  /\ UNCHANGED <<sessionStore, pending, answered, last, normalized, outbox,
               share, nodeEnv, payment, admin>>

\* a statement failed or the callback threw: nothing of it is kept
txRollback ==
  /\ tx.phase \in {"begun", "user", "bill"}
  /\ tx' = [tx EXCEPT !.phase = "rolledBack"]
  /\ UNCHANGED <<sessionStore, pending, users, bills, answered, last,
               normalized, outbox, share, nodeEnv, payment, admin>>

(***************************************************************************)
(* BillService.markPaymentAsPaid, called by POST /payment/mock.  The       *)
(* UPDATE has no RETURNING clause; what the awaited result holds is the    *)
(* driver's business: the rows the statement touched, or no row at all.    *)
(***************************************************************************)
MockPayments ==
  [billId : 1..(MaxBills + 1),
   memberPhone : {"0712345678", "0698765432", "0700000000"}]

UpdateDrivers == {"rows", "empty"}

\* result.length
UpdateResultLength(driver, matched) == IF driver = "rows" THEN matched ELSE 0

Matching(members, memberPhone) ==
  {i \in 1..Len(members) : members[i].member_phone = memberPhone}

\* the matching rows are deleted
MarkPaidRemovesMember(table, billId, memberPhone) ==
  IF billId \in 1..Len(table)
  THEN [table EXCEPT ![billId].members =
          SelectSeq(@, LAMBDA member : member.member_phone # memberPhone)]
  ELSE table

\* update bill_members set status = 'paid', paid_at = now
\*   where bill_id = billId and member_phone = memberPhone
MarkPaid(table, billId, memberPhone) ==
  IF billId \in 1..Len(table)
  THEN [table EXCEPT ![billId].members =
          [i \in 1..Len(@) |->
             IF @[i].member_phone = memberPhone
             THEN [@[i] EXCEPT !.status = "paid"] ELSE @[i]]]
  ELSE table

CountStatus(members, status) ==
  Cardinality({i \in 1..Len(members) : members[i].status = status})

\* BillService.sendPaymentUpdates: an update to each pending member, a
\* confirmation to each paid member, then the completion notice
sendPaymentUpdates(bill, paidCount, totalCount, outcomes) ==
  LET members == bill.members
      updates == [i \in 1..Len(members) |->
                    Attempt(members[i].member_phone,
                            IF members[i].status = "pending"
                            THEN "paymentUpdate" ELSE "paymentConfirmation",
                            outcomes[i])]
  IN  IF paidCount = totalCount
      THEN Append(updates, Attempt(bill.creator.phone, "paymentCompletion",
                                   outcomes[Len(members) + 1]))
      ELSE updates

Outcomes == [1..3 -> {"delivered", "networkError"}]

\* POST /payment/mock: 200 when markPaymentAsPaid returns true, 400 when it
\* returns false, 500 when it throws
postPaymentMock(body, driver) ==
  /\ tx.phase \in {"idle", "committed", "rolledBack"}
  /\ LET marked == MarkPaid(bills, body.billId, body.memberPhone)
         matched == IF body.billId \in 1..Len(bills)
                    THEN Cardinality(Matching(bills[body.billId].members,
                                              body.memberPhone))
                    ELSE 0
         call == [billId |-> body.billId, memberPhone |-> body.memberPhone,
                  matched |-> matched, returned |-> FALSE, http |-> 400]
     IN  /\ bills' = marked
         /\ IF UpdateResultLength(driver, matched) = 0
            THEN /\ payment' = call
                 /\ outbox' = <<>>
            ELSE \E outcomes \in Outcomes :
                   LET bill == marked[body.billId]
                       paidCount == CountStatus(bill.members, "paid")
                       totalCount == Len(bill.members)
                       attempts == sendPaymentUpdates(bill, paidCount,
                                                      totalCount, outcomes)
                       threw == \E i \in 1..Len(attempts) :
                                  sendSMS(attempts[i].outcome).threw
                   IN  /\ outbox' = attempts
                       /\ payment' = IF threw THEN [call EXCEPT !.http = 500]
                                     ELSE [call EXCEPT !.returned = TRUE,
                                                       !.http = 200]
  /\ UNCHANGED <<sessionStore, pending, users, answered, last, normalized, tx,
                 share, nodeEnv, admin>>

BillNext ==
  \/ \E body \in BillRequests : postBills(body)
  \/ txGetOrCreateUser
  \/ txInsertBill
  \/ \E outcome \in SmsOutcomes : txInsertMember(outcome)
  \/ txCommit
  \/ txRollback
  \/ \E body \in MockPayments, driver \in UpdateDrivers :
       postPaymentMock(body, driver)

SpecBill == Init /\ [][BillNext]_vars

(***************************************************************************)
(* The share of one member: the quotient the services compute from the     *)
(* amount and the number of members, the text the summary shows for it,    *)
(* and the amounts the member rows hold.  Init draws the amount text and   *)
(* the member count.                                                       *)
(***************************************************************************)
MaxCount == 7

ShareAmounts ==
  {<<"5", "0", "0", "0", "0">>, <<"0", ".", "0", "3">>,
   <<"0", ".", "1", "5">>, <<"1">>, <<"1", "0", "0">>, T_2_5,
   <<"2", ".", "0", "1">>, <<"1", ".", "0", "0", "5">>, <<"1", "0">>,
   <<"0", ".", "0", "1">>, <<"9", "9", "9", "9", "9", ".", "9", "9">>,
   <<"0", ".", "0", "0", "1">>, <<"7">>, <<"3", "3", ".", "3", "3">>}

ShareInit ==
  /\ sessionStore = <<>>
  /\ pending = <<>>
  /\ users = <<>>
  /\ bills = <<>>
  /\ answered = [sessionId \in SessionIds |-> "none"]
  /\ last = [op |-> "none", req |-> NoRequest, step |-> "", resp |-> NoResponse,
             after |-> "none"]
  /\ normalized = NoEntry
  /\ tx = NoTransaction
  /\ outbox = <<>>
  /\ share \in {[NoShare EXCEPT !.stage = "input", !.text = text,
                                 !.count = count] :
                   text \in ShareAmounts, count \in 1..MaxCount}
  /\ nodeEnv = "production"
  /\ payment = NoPayment
  /\ admin = NoAdmin

\* totalAmount / phoneNumbers.length, request.amount / memberPhones.length
divideAmount ==
  /\ share.stage = "input"
  /\ share' = [share EXCEPT
                 !.stage = "divided",
                 !.amountPerMember =
                    DoubleDiv(DoubleOf(ParseFloat(share.text)), share.count)]
  /\ UNCHANGED <<sessionStore, pending, users, bills, answered, last,
                 normalized, tx, outbox, nodeEnv, payment, admin>>

\* the summary of the members step: (...).toFixed(2)
showShare ==
  /\ share.stage = "divided"
  /\ share.shown = -1
  /\ share' = [share EXCEPT !.shown = ToFixed2(share.amountPerMember)]
  /\ UNCHANGED <<sessionStore, pending, users, bills, answered, last,
                 normalized, tx, outbox, nodeEnv, payment, admin>>

\* the member rows of createBill: one row per phone, each with
\* amountPerMember.toString() in its decimal(10, 2) column
storeShare ==
  /\ share.stage = "divided"
  /\ share.stored = <<>>
  /\ share' = [share EXCEPT
                 !.stored = [i \in 1..share.count |->
                               StoredHundredths(share.amountPerMember)]]
  /\ UNCHANGED <<sessionStore, pending, users, bills, answered, last,
                 normalized, tx, outbox, nodeEnv, payment, admin>>

ShareNext == divideAmount \/ showShare \/ storeShare

SpecShare == ShareInit /\ [][ShareNext]_vars

(***************************************************************************)
(* The debug routes of routes/ussd.ts and the maintenance methods of the   *)
(* engine, next to the turns of the dialogue.  NODE_ENV is read once, when *)
(* the routes are registered.  A step that is not a turn leaves no turn in *)
(* last, a step that is not a debug or maintenance call leaves none in     *)
(* admin.                                                                  *)
(***************************************************************************)
NodeEnvs == {"development", "production", "test"}

NoStep == [op |-> "none", req |-> NoRequest, step |-> "", resp |-> NoResponse,
           after |-> "none"]

AdminRequests ==
  [sessionId : {"s1"}, serviceCode : {"*123#"},
   phoneNumber : {"+255700000000"},
   text : {T_blank, T_2_5, T_mixed, T_one, T_two}]
  \cup [sessionId : {"s2"}, serviceCode : {"*150#"},
        phoneNumber : {"+255711111111"}, text : {T_blank}]

AdminInit ==
  /\ sessionStore = <<>>
  /\ pending = <<>>
  /\ users = <<>>
  /\ bills = <<>>
  /\ answered = [sessionId \in SessionIds |-> "none"]
  /\ last = NoStep
  /\ normalized = NoEntry
  /\ tx = NoTransaction
  /\ outbox = <<>>
  /\ share = NoShare
  /\ nodeEnv \in NodeEnvs
  /\ payment = NoPayment
  /\ admin = NoAdmin

\* the debug routes exist whatever NODE_ENV is
DebugRoutesRegisteredAlways == TRUE

\* if (process.env['NODE_ENV'] === 'development') { fastify.get ... delete }
DebugRoutesRegistered == nodeEnv = "development"

\* GET /ussd/sessions/:sessionId
getSessionInfo(sessionId) ==
  /\ admin' = IF DebugRoutesRegistered /\ sessionId \in DOMAIN sessionStore
              THEN [op |-> "getSessionInfo", sessionId |-> sessionId,
                    http |-> 200, found |-> TRUE,
                    sessionInfo |-> sessionStore[sessionId]]
              ELSE [NoAdmin EXCEPT !.op = "getSessionInfo",
                                   !.sessionId = sessionId, !.http = 404]
  /\ last' = NoStep
  /\ UNCHANGED <<sessionStore, pending, users, bills, answered, normalized,
                 tx, outbox, share, nodeEnv, payment>>

\* DELETE /ussd/sessions: clearAllSessions
clearAllSessions ==
  /\ sessionStore' = IF DebugRoutesRegistered THEN <<>> ELSE sessionStore
  /\ admin' = [NoAdmin EXCEPT
                 !.op = "clearAllSessions",
                 !.http = IF DebugRoutesRegistered THEN 200 ELSE 404]
  /\ last' = NoStep
  /\ UNCHANGED <<pending, users, bills, answered, normalized, tx, outbox,
                 share, nodeEnv, payment>>

\* the cleanup drops every session
cleanupExpiredSessionsDropsAll ==
  /\ sessionStore' = <<>>
  /\ admin' = [NoAdmin EXCEPT !.op = "cleanupExpiredSessions"]
  /\ last' = NoStep
  /\ UNCHANGED <<pending, users, bills, answered, normalized, tx, outbox,
                 share, nodeEnv, payment>>

\* cleanupExpiredSessions: the body is a comment
cleanupExpiredSessions ==
  /\ admin' = [NoAdmin EXCEPT !.op = "cleanupExpiredSessions"]
  /\ last' = NoStep
  /\ UNCHANGED <<sessionStore, pending, users, bills, answered, normalized,
                 tx, outbox, share, nodeEnv, payment>>

AdminTurn ==
  /\ \E request \in AdminRequests :
       /\ processUSSDRequest(request)
       /\ Len(bills') + Len(pending') <= MaxBills
  /\ admin' = NoAdmin
  /\ UNCHANGED <<normalized, tx, outbox, share, nodeEnv, payment>>

AdminNext ==
  \/ AdminTurn
  \/ Resolve
  \/ Reject
  \/ \E sessionId \in SessionIds : getSessionInfo(sessionId)
  \/ clearAllSessions
  \/ cleanupExpiredSessions

SpecAdmin == AdminInit /\ [][AdminNext]_vars

(***************************************************************************)
(* Turns of one dialogue that overlap: a '1' turn waits at "await          *)
(* billService.createBill" while the next turn of the same sessionId runs. *)
(***************************************************************************)
\* createBill calls explored, in flight or returned
MaxCalls == MaxBills + 1

\* one number entered twice
T_twice == <<"0", "7", "1", "2", "3", "4", "5", "6", "7", "8", ",", "0", "7", "1", "2", "3", "4", "5", "6", "7", "8">>

RaceRequests ==
  [sessionId : {"s1"}, serviceCode : {"*123#"},
   phoneNumber : {"+255700000000"},
   text : {T_2_5, T_mixed, T_twice, T_one}]

RaceTurn ==
  /\ \E request \in RaceRequests :
       /\ processUSSDRequest(request)
       /\ Len(bills') + Len(pending') <= MaxCalls
  /\ admin' = NoAdmin
  /\ UNCHANGED <<normalized, tx, outbox, share, nodeEnv, payment>>

RaceNext == RaceTurn \/ Resolve \/ Reject

SpecRace == Init /\ [][RaceNext]_vars

(***************************************************************************)
(* Two dialogues side by side: every step of the dialogue is open to both  *)
(* sessionIds, with a createBill call of either one in flight.             *)
(***************************************************************************)
PairRequests ==
  [sessionId : {"s1"}, serviceCode : {"*123#"},
   phoneNumber : {"+255700000000"},
   text : {T_2_5, T_mixed, T_one, T_two}]
  \cup [sessionId : {"s2"}, serviceCode : {"*150#"},
        phoneNumber : {"+255711111111"},
        text : {T_2_5, T_mixed, T_one}]

PairTurn ==
  /\ \E request \in PairRequests :
       /\ processUSSDRequest(request)
       /\ Len(bills') + Len(pending') <= MaxBills
  /\ admin' = NoAdmin
  /\ UNCHANGED <<normalized, tx, outbox, share, nodeEnv, payment>>

PairNext == PairTurn \/ Resolve \/ Reject

SpecPair == Init /\ [][PairNext]_vars

(***************************************************************************)
(* One dialogue driven to its end: the user may send anything, and keeps   *)
(* coming back with an input the step at hand accepts; a createBill call   *)
(* that was started returns, with a bill or with a failure.                *)
(***************************************************************************)
LiveRequests ==
  [sessionId : {"s1"}, serviceCode : {"*123#"},
   phoneNumber : {"+255700000000"},
   text : {T_blank, T_abc, T_2_5, T_mixed, T_one, T_two}]

\* the input is one the step of the session accepts: an amount at the
\* amount step, a list with a valid number at the members step, '1' or '2'
\* at the confirm step
IsAccepted(request) ==
  LET state == StateOf(request)
      amount == ParseFloat(Trim(request.text))
  IN  \/ /\ state.step = "amount"
         /\ ~IsBlank(request.text)
         /\ ~(isNaN(amount) \/ LeqZero(amount))
      \/ /\ state.step = "members"
         /\ ~IsBlank(request.text)
         /\ Len(ParsePhoneNumbers(request.text)) > 0
      \/ /\ state.step = "confirm"
         /\ request.text \in {<<"1">>, <<"2">>}

LiveTurn ==
  /\ \E request \in LiveRequests :
       /\ processUSSDRequest(request)
       /\ Len(bills') + Len(pending') <= MaxBills
  /\ admin' = NoAdmin
  /\ UNCHANGED <<normalized, tx, outbox, share, nodeEnv, payment>>

AcceptedTurn ==
  /\ \E request \in LiveRequests :
       /\ IsAccepted(request)
       /\ processUSSDRequest(request)
       /\ Len(bills') + Len(pending') <= MaxBills
  /\ admin' = NoAdmin
  /\ UNCHANGED <<normalized, tx, outbox, share, nodeEnv, payment>>

LiveNext == LiveTurn \/ Resolve \/ Reject

\* an accepted input is possible in every state, so the user who keeps
\* supplying one takes AcceptedTurn steps again and again
SpecLive ==
  /\ Init
  /\ [][LiveNext]_vars
  /\ []<><<AcceptedTurn>>_vars
  /\ WF_vars(Resolve \/ Reject)

(***************************************************************************)
(* Properties of the dialogue engine.                                      *)
(***************************************************************************)
StepRank(step) ==
  CASE step = "amount" -> 1 [] step = "members" -> 2 [] step = "confirm" -> 3

IsPositiveFinite(n) ==
  n.kind = "finite" /\ ~n.neg /\ (n.int # <<>> \/ n.frac # <<>>)

\* the text is, as a whole, a decimal literal: an optional sign, then digits
\* with at most one point among them
IsDecimalText(t) ==
  LET u == IF t # <<>> /\ Head(t) \in {"+", "-"} THEN Tail(t) ELSE t
  IN  /\ \E i \in 1..Len(u) : IsDigit(u[i])
      /\ \A i \in 1..Len(u) : IsDigit(u[i]) \/ u[i] = "."
      /\ Cardinality({i \in 1..Len(u) : u[i] = "."}) <= 1

DenotesPositiveFinite(text) ==
  IsDecimalText(Trim(text)) /\ IsPositiveFinite(ParseFloat(Trim(text)))

\* the comma-separated entries of a text, without surrounding spaces
Entries(text) ==
  LET parts == Split(text, ",") IN [i \in 1..Len(parts) |-> Trim(parts[i])]

RECURSIVE ValidInOrder(_)
ValidInOrder(entries) ==
  IF entries = <<>> THEN <<>>
  ELSE (IF isValidPhoneNumber(Head(entries)) THEN <<Head(entries)>> ELSE <<>>)
         \o ValidInOrder(Tail(entries))

\* C1: in every step, a session that stays in the store keeps its step or
\* moves to the next one in the order amount, members, confirm; a session at
\* confirm that stays in the store stays at confirm.
C1_StepOnlyAdvances ==
  [][\A sid \in DOMAIN sessionStore \cap DOMAIN sessionStore' :
       LET before == StepRank(sessionStore[sid].step)
           after == StepRank(sessionStore'[sid].step)
       IN  /\ after \in {before, before + 1}
           /\ before = 3 => after = 3]_vars

\* a members turn has moved a stored session to confirm
C1_Witness ==
  /\ last.op = "turn" /\ last.step = "members"
  /\ last.req.sessionId \in DOMAIN sessionStore
  /\ sessionStore[last.req.sessionId].step = "confirm"

\* C2: whenever a response with status END has been returned for a
\* sessionId, the session store holds no entry for that sessionId.
C2_EndMeansSessionGone ==
  last.resp.status = "END" => last.resp.sessionId \notin DOMAIN sessionStore

\* C3: when createBill has failed for a '1' turn, the next turn with the same
\* sessionId is handled as a new dialogue at the amount step (so it cannot
\* be a '1' that calls createBill with the old amount and members).
C3_FailedDialogueRestarts ==
  [][(/\ last.op = "rejected"
      /\ last'.op \in {"turn", "await"}
      /\ last'.req.sessionId = last.req.sessionId)
       => last'.step = "amount"]_vars

\* C4: a '1' turn at confirm calls createBill with the stored creator phone,
\* amount and member phones of its session; when the call succeeds, exactly
\* that bill is persisted, the session is no longer in the store, and the
\* response is END with the id of the persisted bill.
C4_ConfirmCreatesBill ==
  [][/\ last'.op = "await" =>
          LET stored == sessionStore[last'.req.sessionId]
              call == pending'[Len(pending')]
          IN  /\ stored.step = "confirm"
              /\ call.request = last'.req
              /\ call.billRequest.creatorPhone = stored.phoneNumber
              /\ call.billRequest.amount = stored.amount
              /\ call.billRequest.memberPhones = stored.memberPhones
     /\ last'.op = "resolved" =>
          \E i \in 1..Len(pending) :
            LET call == pending[i]
                bill == bills'[Len(bills')]
            IN  /\ call.request = last'.req
                /\ pending' = RemoveAt(pending, i)
                /\ bills' = Append(bills, bill)
                /\ bill.creator.phone = call.billRequest.creatorPhone
                /\ bill.amount = NumberToString(call.billRequest.amount)
                /\ [k \in 1..Len(bill.members) |-> bill.members[k].member_phone]
                     = call.billRequest.memberPhones
                /\ last'.req.sessionId \notin DOMAIN sessionStore'
                /\ last'.resp.status = "END"
                /\ last'.resp.message.kind = "created"
                /\ last'.resp.message.billId = bill.id]_vars

\* a bill with two members has been created and reported
C4_Witness ==
  /\ last.op = "resolved" /\ last.resp.status = "END"
  /\ bills # <<>>
  /\ last.resp.message.billId = bills[Len(bills)].id
  /\ Len(bills[Len(bills)].members) = 2

\* C5: a '2' turn at confirm removes the session, answers END, and neither
\* starts a createBill call nor changes the bill tables.
C5_CancelRemovesSession ==
  [][(last'.op = "turn" /\ last'.step = "confirm" /\ last'.req.text = <<"2">>)
       => /\ last'.req.sessionId \notin DOMAIN sessionStore'
          /\ last'.resp.status = "END"
          /\ pending' = pending /\ bills' = bills /\ users' = users]_vars

\* a dialogue has been cancelled at confirm
C5_Witness ==
  /\ last.op = "turn" /\ last.step = "confirm" /\ last.req.text = <<"2">>
  /\ last.resp.message.kind = "cancelled"

\* C6: a turn whose sessionId was last answered with the END of a
\* cancellation or of a created bill is handled at the amount step from a
\* session with no amount and no members: what it stores has no member, the
\* phone of this request, and no amount but the one this text parses to.
C6_TurnAfterEndStartsFresh ==
  (last.op \in {"turn", "await"} /\ last.after \in {"created", "cancelled"})
    => /\ last.step = "amount"
       /\ last.req.sessionId \in DOMAIN sessionStore =>
            LET stored == sessionStore[last.req.sessionId]
            IN  /\ stored.step \in {"amount", "members"}
                /\ stored.memberPhones = <<>>
                /\ stored.phoneNumber = last.req.phoneNumber
                /\ stored.amount \in {Undefined, ParseFloat(last.req.text)}

\* a turn has been handled for a sessionId whose dialogue ended with a bill
C6_Witness ==
  /\ last.op = "turn" /\ last.after = "created"
  /\ last.req.sessionId \in DOMAIN sessionStore

\* C7: a turn handled at the amount step whose text parses to a positive
\* finite number stores the session at members with exactly that number as
\* amount, the member list and the phone number it had, and answers CON.
C7_ValidAmountAdvances ==
  [][(/\ last'.op = "turn" /\ last'.step = "amount"
      /\ IsPositiveFinite(ParseFloat(last'.req.text)))
       => LET sid == last'.req.sessionId
              old == StateOf(last'.req)
          IN  /\ sid \in DOMAIN sessionStore'
              /\ sessionStore'[sid].step = "members"
              /\ sessionStore'[sid].amount = ParseFloat(last'.req.text)
              /\ sessionStore'[sid].memberPhones = old.memberPhones
              /\ sessionStore'[sid].phoneNumber = old.phoneNumber
              /\ last'.resp.status = "CON"]_vars

\* the amount 2.5 has been accepted
C7_Witness ==
  /\ last.op = "turn" /\ last.step = "amount" /\ last.req.text = T_2_5
  /\ last.req.sessionId \in DOMAIN sessionStore
  /\ sessionStore[last.req.sessionId].step = "members"
  /\ sessionStore[last.req.sessionId].amount.frac = <<"5">>

\* C8: a turn handled at the amount step whose non-blank text has no number
\* to parse, or parses to a number <= 0, answers CON and leaves the session
\* store as it was.
C8_InvalidAmountLeavesStore ==
  [][(/\ last'.op = "turn" /\ last'.step = "amount"
      /\ ~IsBlank(last'.req.text)
      /\ LET n == ParseFloat(last'.req.text) IN isNaN(n) \/ LeqZero(n))
       => /\ sessionStore' = sessionStore
          /\ last'.resp.status = "CON"
          /\ last'.req.sessionId \in DOMAIN sessionStore' =>
               sessionStore'[last'.req.sessionId].step = "amount"]_vars

\* a non-numeric amount has been refused
C8_Witness ==
  /\ last.op = "turn" /\ last.step = "amount" /\ last.req.text = T_abc
  /\ last.resp.message.kind = "invalidAmount"

\* C9: a turn handled at the amount step with a non-blank text advances the
\* session to members if the whole text denotes a finite number > 0, and
\* otherwise answers with the invalid-amount prompt and leaves the store.
C9_OnlyWholeFiniteAmountsAdvance ==
  [][(last'.op = "turn" /\ last'.step = "amount" /\ ~IsBlank(last'.req.text))
       => IF DenotesPositiveFinite(last'.req.text)
          THEN /\ last'.req.sessionId \in DOMAIN sessionStore'
               /\ sessionStore'[last'.req.sessionId].step = "members"
          ELSE /\ last'.resp.message.kind = "invalidAmount"
               /\ sessionStore' = sessionStore]_vars

\* C10: after a turn handled at the members step whose text has a valid
\* entry, the stored member list is the valid entries of the text in their
\* order, the session is at confirm, and the response is CON.
C10_MembersAreValidEntriesInOrder ==
  (/\ last.op = "turn" /\ last.step = "members"
   /\ \E i \in 1..Len(Entries(last.req.text)) :
        isValidPhoneNumber(Entries(last.req.text)[i]))
    => /\ last.req.sessionId \in DOMAIN sessionStore
       /\ sessionStore[last.req.sessionId].step = "confirm"
       /\ sessionStore[last.req.sessionId].memberPhones
            = ValidInOrder(Entries(last.req.text))
       /\ last.resp.status = "CON"

\* the list with an invalid entry in the middle has been stored
C10_Witness ==
  /\ last.op = "turn" /\ last.step = "members" /\ last.req.text = T_mixed
  /\ last.req.sessionId \in DOMAIN sessionStore
  /\ Len(sessionStore[last.req.sessionId].memberPhones) = 2

\* '+255' followed by 9 digits
IsCanonicalPhone(p) ==
  /\ Len(p) = 13
  /\ SubSeq(p, 1, 4) = <<"+", "2", "5", "5">>
  /\ \A i \in 5..13 : IsDigit(p[i])

\* a number greater than 0
IsPositiveNumber(n) == (n.kind = "Infinity" /\ ~n.neg) \/ IsPositiveFinite(n)

HasValidEntry(text) ==
  \E i \in 1..Len(Entries(text)) : isValidPhoneNumber(Entries(text)[i])

\* C11: every member phone of a stored session, and every member phone of a
\* bill request handed to createBill, is '+255' followed by 9 digits.
C11_MemberPhonesCanonical ==
  /\ \A sid \in DOMAIN sessionStore :
       \A i \in 1..Len(sessionStore[sid].memberPhones) :
         IsCanonicalPhone(sessionStore[sid].memberPhones[i])
  /\ \A c \in 1..Len(pending) :
       \A i \in 1..Len(pending[c].billRequest.memberPhones) :
         IsCanonicalPhone(pending[c].billRequest.memberPhones[i])

\* C15: every response carries the serviceCode of its request.
C15_ServiceCodeEchoed ==
  last.op \in {"turn", "resolved", "rejected"}
    => last.resp.serviceCode = last.req.serviceCode

\* C16: no step changes the phoneNumber of a session that stays in the
\* store.
C16_PhoneNumberNeverChanges ==
  [][\A sid \in DOMAIN sessionStore \cap DOMAIN sessionStore' :
       sessionStore'[sid].phoneNumber = sessionStore[sid].phoneNumber]_vars

\* C17: a turn handled at members with a blank text or without a valid
\* entry, and a turn handled at confirm with a text other than '1' and '2',
\* answers CON, leaves the session store as it was, and starts no createBill
\* call.
C17_ValidationFailureKeepsSession ==
  [][(/\ last'.op \in {"turn", "await"}
      /\ \/ /\ last'.step = "members"
            /\ IsBlank(last'.req.text) \/ ~HasValidEntry(last'.req.text)
         \/ /\ last'.step = "confirm"
            /\ last'.req.text \notin {<<"1">>, <<"2">>})
       => /\ last'.op = "turn"
          /\ last'.resp.status = "CON"
          /\ sessionStore' = sessionStore
          /\ pending' = pending /\ bills' = bills /\ users' = users]_vars

\* an unknown option has been refused at confirm, the session still there
C17_Witness ==
  /\ last.op = "turn" /\ last.step = "confirm"
  /\ last.resp.message.kind = "invalidOption"
  /\ last.req.sessionId \in DOMAIN sessionStore
  /\ sessionStore[last.req.sessionId].step = "confirm"

\* C18: a createBill call starts only in a turn with text '1' for a session
\* stored at confirm; a turn that returns at once changes neither the calls
\* in flight nor the bill tables.
C18_CreateBillOnlyOnConfirm ==
  [][/\ Len(pending') > Len(pending) =>
          /\ last'.op = "await" /\ last'.step = "confirm"
          /\ last'.req.text = <<"1">>
          /\ last'.req.sessionId \in DOMAIN sessionStore
          /\ sessionStore[last'.req.sessionId].step = "confirm"
     /\ last'.op = "turn" =>
          pending' = pending /\ bills' = bills /\ users' = users]_vars

\* a '1' turn at confirm is waiting for createBill
C18_Witness ==
  /\ last.op = "await" /\ last.step = "confirm" /\ last.req.text = <<"1">>
  /\ Len(pending) > 0

\* C19: a session stored at members or confirm has an amount > 0, a session
\* stored at confirm has a member; every bill request handed to createBill
\* has an amount > 0 and a member.
C19_SessionsWellFormed ==
  /\ \A sid \in DOMAIN sessionStore :
       LET stored == sessionStore[sid]
       IN  /\ stored.step \in {"members", "confirm"}
                => IsPositiveNumber(stored.amount)
           /\ stored.step = "confirm" => Len(stored.memberPhones) > 0
  /\ \A c \in 1..Len(pending) :
       /\ IsPositiveNumber(pending[c].billRequest.amount)
       /\ Len(pending[c].billRequest.memberPhones) > 0

\* a bill request has been handed to createBill from a session at confirm
C19_Witness ==
  /\ Len(pending) > 0
  /\ \E sid \in DOMAIN sessionStore : sessionStore[sid].step = "confirm"
  /\ IsPositiveNumber(pending[1].billRequest.amount)

T_local == <<"0", "7", "1", "2", "3", "4", "5", "6", "7", "8">>
T_international == <<"+", "2", "5", "5", "7", "1", "2", "3", "4", "5", "6", "7", "8">>
T_countryCode == <<"2", "5", "5", "7", "1", "2", "3", "4", "5", "6", "7", "8">>

\* C12: the engine's test and the normalizer's test give the same verdict
\* on every entry.
C12_EngineAcceptsWhatNormalizerAccepts ==
  normalized.stage \in {"checked", "formatted", "again"}
    => normalized.engine = normalized.valid

\* C13: '0712345678', '+255712345678' and '255712345678' are each accepted
\* by validatePhoneNumber and each formatted to '+255712345678'.
C13_ThreeSpellingsOneNumber ==
  /\ normalized.raw \in {T_local, T_international, T_countryCode}
  /\ normalized.stage \in {"formatted", "again"}
  => /\ normalized.valid
     /\ normalized.formatted = T_international

\* C14: an entry accepted by validatePhoneNumber is formatted to '+255', a
\* digit 6 or 7 and 8 more digits; the formatted number is accepted by
\* validatePhoneNumber and formatPhoneNumber leaves it as it is.
C14_FormatIsCanonicalAndIdempotent ==
  /\ normalized.stage \in {"formatted", "again"} /\ normalized.valid
       => /\ Len(normalized.formatted) = 13
          /\ SubSeq(normalized.formatted, 1, 4) = <<"+", "2", "5", "5">>
          /\ IsSubscriberNumber(SubSeq(normalized.formatted, 5, 13))
  /\ normalized.stage = "again" /\ normalized.valid
       => /\ normalized.validAgain
          /\ normalized.again = normalized.formatted

\* a local number written with hyphens went through both passes
C14_Witness ==
  /\ normalized.stage = "again" /\ normalized.valid
  /\ normalized.raw # CleanPhone(normalized.raw)
  /\ StartsWith(normalized.raw, <<"0">>)
  /\ normalized.again = normalized.formatted

\* C20: a step of createBill either leaves the bill table as it was, or it
\* is the commit and adds the one bill of the call with a member row for
\* every requested phone, in the requested order; a call that has failed
\* has left the table as it was.
C20_CreateBillAllOrNothing ==
  [][tx' # tx =>
       \/ bills' = bills
       \/ /\ tx.phase = "bill" /\ tx'.phase = "committed"
          /\ bills' = Append(bills, createBill(tx.billRequest))
          /\ LET persisted == bills'[Len(bills')]
                 requested == tx.billRequest.memberPhones
             IN  /\ Len(persisted.members) = Len(requested)
                 /\ \A i \in 1..Len(requested) :
                      persisted.members[i].member_phone = requested[i]]_vars

\* a call failed after its bill row and a member row had been inserted
C20_Witness ==
  /\ tx.phase = "rolledBack"
  /\ Len(tx.bills) = Len(bills) + 1
  /\ Len(tx.bills[Len(tx.bills)].members) > 0
  /\ Len(tx.bills[Len(tx.bills)].members) < Len(tx.billRequest.memberPhones)

\* C21: a step of createBill in which an SMS send fails leaves the
\* transaction open with the member row inserted and persists nothing by
\* itself; a POST /payment/mock whose send attempts fail still returns true,
\* answers 200 and keeps the member rows it marked.
C21_SmsFailureIsNotFatal ==
  [][/\ (/\ Len(outbox') = Len(outbox) + 1
         /\ outbox'[Len(outbox')].outcome # "delivered"
         /\ tx.phase = "bill")
          => /\ tx'.phase = "bill"
             /\ Len(tx'.bills[Len(tx'.bills)].members)
                  = Len(tx.bills[Len(tx.bills)].members) + 1
             /\ bills' = bills
     /\ (/\ payment' # payment
         /\ \E i \in 1..Len(outbox') : outbox'[i].outcome # "delivered")
          => /\ payment'.returned /\ payment'.http = 200
             /\ bills' = MarkPaid(bills, payment'.billId,
                                  payment'.memberPhone)]_vars

\* createBill committed although every notification of it failed
C21_Witness ==
  /\ tx.phase = "committed"
  /\ Len(outbox) = Len(tx.billRequest.memberPhones)
  /\ \A i \in 1..Len(outbox) : outbox[i].outcome # "delivered"
  /\ \E i \in 1..Len(outbox) : outbox[i].outcome = "networkError"
  /\ bills = tx.bills

\* C22: when createBill commits, the send attempts of the call are one
\* bill-split request per member row of the new bill, addressed to that
\* row's phone, and nothing else.
C22_OneRequestPerMember ==
  [][(tx.phase = "bill" /\ tx'.phase = "committed")
       => LET members == bills'[Len(bills')].members
          IN  /\ Len(outbox') = Len(members)
              /\ \A i \in 1..Len(members) :
                   /\ outbox'[i].to = members[i].member_phone
                   /\ outbox'[i].kind = "billSplitRequest"]_vars

\* a bill with two member rows committed: two attempts, creator not among
\* the addressees
C22_Witness ==
  /\ tx.phase = "committed"
  /\ Len(bills[Len(bills)].members) = 2
  /\ Len(outbox) = 2
  /\ \A i \in 1..2 : outbox[i].to # tx.billRequest.creatorPhone

\* the member rows of the bill that the latest POST /payment/mock named
PaidBill == bills[payment.billId]

\* C23: a POST /payment/mock for a pending member of an existing bill
\* returns true and leaves that member paid; its send attempts are an update
\* for every member then pending and a confirmation for every member then
\* paid, followed by a completion notice to the creator exactly when no
\* member is pending.
C23_PaymentFansOut ==
  [][(/\ payment' # payment
      /\ payment'.billId \in 1..Len(bills)
      /\ \E i \in Matching(bills[payment'.billId].members,
                           payment'.memberPhone) :
           bills[payment'.billId].members[i].status = "pending")
       => LET after == bills'[payment'.billId]
              members == after.members
              allPaid == CountStatus(members, "pending") = 0
          IN  /\ payment'.returned
              /\ \A i \in Matching(members, payment'.memberPhone) :
                   members[i].status = "paid"
              /\ Len(outbox') = Len(members) + (IF allPaid THEN 1 ELSE 0)
              /\ \A i \in 1..Len(members) :
                   /\ outbox'[i].to = members[i].member_phone
                   /\ outbox'[i].kind =
                        IF members[i].status = "pending"
                        THEN "paymentUpdate" ELSE "paymentConfirmation"
              /\ allPaid =>
                   /\ outbox'[Len(outbox')].kind = "paymentCompletion"
                   /\ outbox'[Len(outbox')].to = after.creator.phone]_vars

Thousandths(text) ==
  LET n == ParseFloat(text)
      frac == n.frac \o [i \in 1..(3 - Len(n.frac)) |-> "0"]
  IN  IntOfNat(NatOfDigits(n.int \o frac))

Abs(v) == IF v < 0 THEN 0 - v ELSE v

RECURSIVE Sum(_)
Sum(seq) == IF seq = <<>> THEN 0 ELSE Head(seq) + Sum(Tail(seq))

\* C26: the member rows of a bill of total T with n members all hold the same
\* amount, that amount is a hundredth nearest to T / n, and the sum of the
\* rows differs from T by at most n half-cents.
C26_EqualSharesWithinRounding ==
  share.stored # <<>> =>
    LET n == share.count
        total == Thousandths(share.text)
    IN  /\ Len(share.stored) = n
        /\ \A i \in 1..n : share.stored[i] = share.stored[1]
        /\ Abs(10 * n * share.stored[1] - total) <= 5 * n
        /\ Abs(10 * Sum(share.stored) - total) <= 5 * n

\* 50000 shared by three: each row holds 16666.67
C26_Witness ==
  /\ share.text = <<"5", "0", "0", "0", "0">>
  /\ share.count = 3
  /\ share.stored = <<1666667, 1666667, 1666667>>

\* C27: the summary shows amount / count rounded to two decimals, half away
\* from zero.
C27_ShareRoundsHalfAway ==
  share.shown # -1 =>
    share.shown = (Thousandths(share.text) + 5 * share.count)
                    \div (10 * share.count)

\* C28: unless NODE_ENV is 'development', a request for a session's raw state
\* or for clearing the store is answered 404, discloses no session and
\* leaves the store as it was.
C28_DebugOnlyInDevelopment ==
  [][(/\ nodeEnv # "development"
      /\ admin'.op \in {"getSessionInfo", "clearAllSessions"})
     => /\ admin'.http = 404
        /\ ~admin'.found
        /\ admin'.sessionInfo = NoAdmin.sessionInfo
        /\ sessionStore' = sessionStore]_vars

\* in production, DELETE /ussd/sessions was refused with a dialogue at its
\* confirm step in the store
C28_Witness ==
  /\ nodeEnv = "production"
  /\ admin.op = "clearAllSessions"
  /\ admin.http = 404
  /\ "s1" \in DOMAIN sessionStore
  /\ sessionStore["s1"].step = "confirm"

\* C29: a stored session leaves the store only by a resolved '1' turn of its
\* sessionId, by a '2' turn of its sessionId at the confirm step, or by
\* clearAllSessions; a turn of another sessionId, cleanupExpiredSessions and
\* a read of the debug route leave it in the store as it was.
C29_SessionsNeverExpire ==
  [][\A s \in DOMAIN sessionStore :
       /\ s \notin DOMAIN sessionStore' =>
            \/ last'.op = "resolved" /\ last'.req.sessionId = s
            \/ /\ last'.op = "turn"
               /\ last'.req.sessionId = s
               /\ last'.step = "confirm"
               /\ last'.req.text = <<"2">>
            \/ admin'.op = "clearAllSessions"
       /\ (\/ admin'.op \in {"cleanupExpiredSessions", "getSessionInfo"}
           \/ last'.op # "none" /\ last'.req.sessionId # s)
          => /\ s \in DOMAIN sessionStore'
             /\ sessionStore'[s] = sessionStore[s]]_vars

\* dialogue s1 waits at the members step; a second dialogue has had a turn
\* and cleanupExpiredSessions has just run
C29_Witness ==
  /\ "s1" \in DOMAIN sessionStore
  /\ sessionStore["s1"].step = "members"
  /\ answered["s2"] # "none"
  /\ admin.op = "cleanupExpiredSessions"

\* C30: while a session is at the confirm step, a '1' turn for it starts a
\* createBill call whatever calls of the same session are in flight, and
\* every call in flight can return a bill of its own.
C30_OverlappingConfirmationsBothCreate ==
  /\ \A request \in RaceRequests :
       (/\ request.text = <<"1">>
        /\ request.sessionId \in DOMAIN sessionStore
        /\ sessionStore[request.sessionId].step = "confirm")
       => ENABLED (/\ processUSSDRequest(request)
                   /\ pending' =
                        Append(pending,
                               [request |-> request,
                                billRequest |->
                                  CreateBillRequest(
                                    sessionStore[request.sessionId])]))
  /\ \A i \in 1..Len(pending) :
       ENABLED (confirmResolved(i) /\ Len(bills') = Len(bills) + 1)

\* the first call of the dialogue has returned its bill and deleted the
\* session; the second call of the same dialogue is still in flight
C30_Witness ==
  /\ Len(bills) = 1
  /\ Len(pending) = 1
  /\ pending[1].request.sessionId \notin DOMAIN sessionStore
  /\ pending[1].billRequest.memberPhones =
       [i \in 1..Len(bills[1].members) |-> bills[1].members[i].member_phone]

\* C31: a turn handled at the amount or the members step is complete in
\* the step that starts it: it returns its response, touches the store at
\* its own sessionId only and leaves no call in flight; the only turn that
\* is left waiting is a '1' turn at the confirm step, and it has written
\* nothing when it starts to wait.
C31_OnlyConfirmWaits ==
  [][/\ (last'.op # "none" /\ last'.step \in {"amount", "members"})
          => /\ last'.op = "turn"
             /\ last'.resp.status \in {"CON", "END"}
             /\ pending' = pending
             /\ bills' = bills
             /\ \A s \in DOMAIN sessionStore \cup DOMAIN sessionStore' :
                  s # last'.req.sessionId
                    => /\ s \in DOMAIN sessionStore
                       /\ s \in DOMAIN sessionStore'
                       /\ sessionStore'[s] = sessionStore[s]
     /\ last'.op = "await"
          => /\ last'.step = "confirm"
             /\ last'.req.text = <<"1">>
             /\ sessionStore' = sessionStore]_vars

\* with a '1' turn of the sessionId still waiting, an amount turn of the
\* same sessionId has been handled and has moved the session on
C31_Witness ==
  /\ Len(pending) = 1
  /\ last.op = "turn"
  /\ last.step = "amount"
  /\ last.req.sessionId = pending[1].request.sessionId
  /\ last.req.sessionId \in DOMAIN sessionStore
  /\ sessionStore[last.req.sessionId].step = "members"

\* C32: once a sessionId has been answered with the END of a cancellation
\* and no turn of it has been answered since, no createBill call of that
\* sessionId returns a bill.
C32_NoBillAfterCancellation ==
  [][\A s \in SessionIds :
       answered[s] = "cancelled"
         => ~(/\ last'.op = "resolved"
              /\ last'.req.sessionId = s
              /\ Len(bills') > Len(bills))]_vars

\* C33: when a createBill call returns while the store holds, under the
\* call's sessionId, a session that is not at the confirm step (a dialogue
\* started after the call), that session stays in the store as it is.
C33_ResolveKeepsNewDialogue ==
  [][\A s \in DOMAIN sessionStore :
       (/\ last'.op = "resolved"
        /\ last'.req.sessionId = s
        /\ sessionStore[s].step # "confirm")
         => /\ s \in DOMAIN sessionStore'
            /\ sessionStore'[s] = sessionStore[s]]_vars

\* C34: when a createBill call has rolled back, no bill-split request of
\* that call has been delivered to a member.
C34_RequestsOnlyForPersistedBills ==
  tx.phase = "rolledBack"
    => \A i \in 1..Len(outbox) :
         ~(outbox[i].kind = "billSplitRequest"
           /\ outbox[i].outcome = "delivered")

\* the completion notices among the send attempts
CompletionNotices(attempts) ==
  Cardinality({i \in 1..Len(attempts) :
                 attempts[i].kind = "paymentCompletion"})

\* C35: a POST /payment/mock for an existing bill sends one completion
\* notice when it takes the bill from not fully paid to fully paid, and none
\* otherwise.
C35_CompletionNoticeOnce ==
  [][(payment' # payment /\ payment'.billId \in 1..Len(bills))
       => LET before == bills[payment'.billId].members
              after == bills'[payment'.billId].members
              completes == /\ CountStatus(before, "pending") > 0
                           /\ CountStatus(after, "pending") = 0
          IN  CompletionNotices(outbox') = IF completes THEN 1 ELSE 0]_vars

\* C36: a POST /payment/mock whose markPaymentAsPaid returned false has
\* left every bill with its member rows as it was and has made no send
\* attempt.
C36_FalseMeansUntouched ==
  [][(payment' # payment /\ ~payment'.returned /\ payment'.http = 400)
       => bills' = bills /\ outbox' = <<>>]_vars

IsDuplicateFree(seq) ==
  \A i, j \in 1..Len(seq) : seq[i] = seq[j] => i = j

\* C37: the member list of every stored session and the member rows of
\* every bill hold each phone number at most once.
C37_MemberPhonesDistinct ==
  /\ \A s \in DOMAIN sessionStore :
       IsDuplicateFree(sessionStore[s].memberPhones)
  /\ \A b \in 1..Len(bills) :
       IsDuplicateFree([i \in 1..Len(bills[b].members) |->
                          bills[b].members[i].member_phone])

\* C38: a step taken for one sessionId (a turn at any step, the return or
\* the failure of its createBill call) leaves the stored session of every
\* other sessionId in the store as it was.
C38_SessionsIsolated ==
  [][\A b \in DOMAIN sessionStore :
       (last'.op # "none" /\ last'.req.sessionId # b)
         => /\ b \in DOMAIN sessionStore'
            /\ sessionStore'[b] = sessionStore[b]]_vars

\* dialogue s1 has just been cancelled at its confirm step while dialogue
\* s2 waits at its confirm step with the same member list
C38_Witness ==
  /\ last.op = "turn"
  /\ last.req.sessionId = "s1"
  /\ last.resp.status = "END"
  /\ "s1" \notin DOMAIN sessionStore
  /\ "s2" \in DOMAIN sessionStore
  /\ sessionStore["s2"].step = "confirm"
  /\ Len(sessionStore["s2"].memberPhones) = 2

EndKinds == {"created", "failed", "cancelled"}

\* C39: every turn that has returned has returned one response, with
\* status CON or END; and when the user keeps supplying accepted inputs and
\* every createBill call returns, a dialogue that was answered CON is
\* answered END later on.
C39_DialogueCanBeDrivenToEnd ==
  /\ [](last.op \in {"turn", "resolved", "rejected"}
         => last.resp.status \in {"CON", "END"})
  /\ (answered["s1"] = "CON") ~> (answered["s1"] \in EndKinds)

\* the createBill call failed and the dialogue was answered END all the
\* same
C39_Witness ==
  /\ last.op = "rejected"
  /\ last.resp.status = "END"
  /\ answered["s1"] = "failed"

====
